---- MODULE Spec2Model ----
(***************************************************************************)
(* A model of the rsnmp SNMP manager client: the BER codec of Value,      *)
(* VarBinding, Pdu and Message (types.rs, pdu.rs), the Client and its     *)
(* synchronous exchange (client.rs) and the GET-NEXT walk driver          *)
(* (bin/main.rs); and the PduTag parsing of the earlier single-file draft *)
(* of the crate (lib.rs).                                                  *)
(***************************************************************************)
EXTENDS Integers, Sequences, FiniteSets, TLC

VARIABLES
    little_endian,     \* target byte order of the build (u32::from_ne_bytes)
    overflow_checks,   \* whether the build traps on integer overflow
    codec_pc,          \* position of the codec exercise: "in", "encoded", "decoded"
    value_in,          \* the Value handed to encode
    value_bytes,       \* the bytes produced by encode
    value_out,         \* the result of decode on value_bytes
    tag_pc,            \* position of the tag exercise: "in", "mapped", "back", "both"
    ptag_in,           \* the PduTag handed to into_tag (or "none")
    wire_tag,          \* a wire tag [class, num]
    ptag_out,          \* the result of from_tag on wire_tag
    ptag_lib,          \* the result of the draft's from_tag (lib.rs) on wire_tag
    pdu_op,            \* the last builder call on the Pdu, with its two integers
    pdu_before,        \* the Pdu that call was made on
    pdu_built,         \* the Pdu it returned
    pdu_bytes,         \* the bytes produced by encode on pdu_built
    version,           \* Client.version
    current_request,   \* Client.current_request (i32)
    read_community,    \* Client.read_community
    write_community,   \* Client.write_community
    client_pc,         \* "ready", or "panicked" once a call has aborted the process
    call,              \* what the last client call did (op, pdu, sends, recvs, result)
    calls,             \* history: the pdus built by the calls so far, in order
    walk_pc,           \* position of main: "start", "loop", "halted", "panicked"
    oids,              \* main's oids
    vars_,             \* main's vars, the bindings of the last reply
    emitted,           \* the bindings printed so far, in order
    agent_log          \* history: the binding lists the agent has answered with

vars == << little_endian, overflow_checks, codec_pc, value_in, value_bytes, value_out,
           tag_pc, ptag_in, wire_tag, ptag_out, ptag_lib,
           pdu_op, pdu_before, pdu_built, pdu_bytes,
           version, current_request, read_community, write_community, client_pc,
           call, calls, walk_pc, oids, vars_, emitted, agent_log >>

codecVars == << codec_pc, value_in, value_bytes, value_out >>
tagVars == << tag_pc, ptag_in, wire_tag, ptag_out, ptag_lib >>
pduVars == << pdu_op, pdu_before, pdu_built, pdu_bytes >>
buildVars == << little_endian, overflow_checks >>
clientVars == << version, current_request, read_community, write_community, client_pc,
                 call, calls >>
walkVars == << walk_pc, oids, vars_, emitted, agent_log >>

-----------------------------------------------------------------------------
(* Results.                                                                *)

Ok(v) == [ok |-> TRUE, val |-> v]
Err(e) == [ok |-> FALSE, err |-> e]

-----------------------------------------------------------------------------
(* Tags.  A rasn Tag is a class and a number.                              *)

\* the two class bits of an identifier octet
ClassBits(class) ==
    CASE class = "Universal" -> 0
      [] class = "Application" -> 1
      [] class = "Context" -> 2
      [] class = "Private" -> 3

ClassOfBits(b) ==
    CASE b = 0 -> "Universal"
      [] b = 1 -> "Application"
      [] b = 2 -> "Context"
      [] b = 3 -> "Private"

Tag(class, num) == [class |-> class, num |-> num]

TAG_NULL == Tag("Universal", 5)
TAG_INTEGER == Tag("Universal", 2)
TAG_OCTET_STRING == Tag("Universal", 4)
TAG_OBJECT_IDENTIFIER == Tag("Universal", 6)
TAG_SEQUENCE == Tag("Universal", 16)

TAG_IPADDR == Tag("Application", 0)
TAG_COUNTER32 == Tag("Application", 1)
TAG_GAUGE32 == Tag("Application", 2)
TAG_TIMETICKS == Tag("Application", 3)
TAG_OPAQUE == Tag("Application", 4)
TAG_COUNTER64 == Tag("Application", 6)
TAG_NOSUCHOBJECT == Tag("Context", 0)
TAG_NOSUCHINSTANCE == Tag("Context", 1)
TAG_ENDOFMIBVIEW == Tag("Context", 2)

TAG_MSG_GET == Tag("Context", 0)
TAG_MSG_GETNEXT == Tag("Context", 1)
TAG_MSG_RESPONSE == Tag("Context", 2)
TAG_MSG_SET == Tag("Context", 3)
TAG_MSG_TRAPV1 == Tag("Context", 4)
TAG_MSG_GETBULK == Tag("Context", 5)
TAG_MSG_INFORM == Tag("Context", 6)
TAG_MSG_TRAPV2 == Tag("Context", 7)
TAG_MSG_REPORT == Tag("Context", 8)

-----------------------------------------------------------------------------
(* BER primitives (the rasn::ber encoder and decoder the code calls).      *)

\* identifier octet: class in bits 8-7, constructed in bit 6, number in bits 5-1
Ident(tag, constructed) == ClassBits(tag.class) * 64 + (IF constructed THEN 32 ELSE 0) + tag.num

\* definite length octets: short form below 128, else one length-of-length octet
EncLen(n) == IF n < 128 THEN << n >> ELSE << 129, n >>

TLV(tag, constructed, content) ==
    << Ident(tag, constructed) >> \o EncLen(Len(content)) \o content

\* minimal two's complement, big-endian
RECURSIVE SignedBytes(_)
SignedBytes(i) ==
    IF -128 <= i /\ i <= 127
    THEN << i % 256 >>
    ELSE SignedBytes(i \div 256) \o << i % 256 >>

\* the value of a two's complement big-endian content: acc is the value of
\* the octets read so far
RECURSIVE SignedFrom(_, _)
SignedFrom(bs, acc) ==
    IF bs = << >> THEN acc ELSE SignedFrom(Tail(bs), acc * 256 + bs[1])

SignedOf(bs) ==
    SignedFrom(Tail(bs), IF bs[1] >= 128 THEN bs[1] - 256 ELSE bs[1])

\* read one tag-length-value from the head of bs
ReadTLV(bs) ==
    IF Len(bs) < 2 THEN Err("truncated")
    ELSE IF bs[1] % 32 = 31 THEN Err("long tag")
    ELSE LET long == bs[2] >= 128
             hdr == IF long THEN 3 ELSE 2
         IN  IF long /\ (bs[2] # 129 \/ Len(bs) < 3) THEN Err("length form")
             ELSE LET n == IF long THEN bs[3] ELSE bs[2]
                  IN  IF Len(bs) < hdr + n THEN Err("truncated")
                      ELSE Ok([tag |-> Tag(ClassOfBits(bs[1] \div 64), bs[1] % 32),
                               constructed |-> (bs[1] \div 32) % 2 = 1,
                               content |-> SubSeq(bs, hdr + 1, hdr + n),
                               rest |-> SubSeq(bs, hdr + n + 1, Len(bs))])

TagOf(r) == IF r.ok THEN Ok(r.val.tag) ELSE r

Tagged(r, tag) ==
    IF ~r.ok THEN r
    ELSE IF r.val.tag # tag THEN Err("UnexpectedTag")
    ELSE r

\* read one TLV and require the tag the caller expects
Expect(bs, tag) == Tagged(ReadTLV(bs), tag)

\* v followed by the items of `more`, when `more` was read without error
Cons(v, more) == IF ~more.ok THEN more ELSE Ok(<< v >> \o more.val)

MaxI32 == 2147483647
MinI32 == -MaxI32 - 1

\* the widest integer content the model evaluates; every integer of the
\* model's inputs fits it
IntWidth == 4

EncodeInteger(tag, i) == TLV(tag, FALSE, SignedBytes(i))

IntegerOf(r, lo) ==
    IF ~r.ok THEN r
    ELSE IF r.val.content = << >> THEN Err("empty integer")
    ELSE IF Len(r.val.content) > IntWidth THEN Err("integer out of range")
    ELSE IF SignedOf(r.val.content) < lo THEN Err("integer out of range")
    ELSE Ok([v |-> SignedOf(r.val.content), rest |-> r.val.rest])

\* an INTEGER under `tag`, converted to a primitive whose least value is lo
\* (i32: MinI32; u32 and u64: 0)
DecodeInteger(bs, tag, lo) == IntegerOf(Expect(bs, tag), lo)

\* base-128 digits of one sub-identifier, high bit set on all but the last
RECURSIVE Base128(_, _)
Base128(n, last) ==
    LET d == (n % 128) + (IF last THEN 0 ELSE 128)
    IN  IF n < 128 THEN << d >> ELSE Base128(n \div 128, FALSE) \o << d >>

RECURSIVE SubIds(_)
SubIds(arcs) ==
    IF arcs = << >> THEN << >> ELSE Base128(Head(arcs), TRUE) \o SubIds(Tail(arcs))

EncodeOid(oid) ==
    TLV(TAG_OBJECT_IDENTIFIER, FALSE,
        SubIds(<< 40 * oid[1] + oid[2] >> \o SubSeq(oid, 3, Len(oid))))

\* the sub-identifiers of a content: acc is the value of the digits read so
\* far, open whether a sub-identifier is being read
RECURSIVE ReadSubIds(_, _, _)
ReadSubIds(bs, acc, open) ==
    IF bs = << >> THEN (IF open THEN Err("truncated sub-identifier") ELSE Ok(<< >>))
    ELSE IF bs[1] >= 128 THEN ReadSubIds(Tail(bs), acc * 128 + (bs[1] % 128), TRUE)
    ELSE Cons(acc * 128 + bs[1], ReadSubIds(Tail(bs), 0, FALSE))

\* the arcs of the sub-identifiers: the first one holds the first two arcs
Arcs(subids) ==
    LET f == subids[1]
        a == IF f < 40 THEN 0 ELSE IF f < 80 THEN 1 ELSE 2
    IN  << a, f - 40 * a >> \o Tail(subids)

OidFrom(s, rest) ==
    IF ~s.ok THEN s
    ELSE IF s.val = << >> THEN Err("empty oid")
    ELSE Ok([v |-> Arcs(s.val), rest |-> rest])

OidOf(r) ==
    IF ~r.ok THEN r ELSE OidFrom(ReadSubIds(r.val.content, 0, FALSE), r.val.rest)

DecodeOid(bs) == OidOf(Expect(bs, TAG_OBJECT_IDENTIFIER))

EncodeOctetString(tag, bytes) == TLV(tag, FALSE, bytes)

OctetsOf(r) == IF ~r.ok THEN r ELSE Ok([v |-> r.val.content, rest |-> r.val.rest])

DecodeOctetString(bs, tag) == OctetsOf(Expect(bs, tag))

EncodeNull(tag) == TLV(tag, FALSE, << >>)

NullOf(r) ==
    IF ~r.ok THEN r
    ELSE IF r.val.content # << >> THEN Err("InvalidLength")
    ELSE Ok([v |-> << >>, rest |-> r.val.rest])

DecodeNull(bs, tag) == NullOf(Expect(bs, tag))

-----------------------------------------------------------------------------
(* Value (types.rs).                                                       *)

\* a Value: its variant and its payload as a sequence of integers (the arcs of
\* an Oid, the octets of an IpAddr, OctetStr or Opaque, the one number of a
\* numeric variant, nothing for a unit variant)
Val(kind, v) == [kind |-> kind, v |-> v]
Num(kind, n) == Val(kind, << n >>)

Null == Val("Null", << >>)
NoSuchObject == Val("NoSuchObject", << >>)
NoSuchInstance == Val("NoSuchInstance", << >>)
EndOfMIBView == Val("EndOfMIBView", << >>)

Reverse(b) == [i \in 1..Len(b) |-> b[Len(b) + 1 - i]]

\* u32::from_ne_bytes(addr.octets()).to_be_bytes(): the octets are read in the
\* target's byte order and written big-endian
ip_to_bytes(addr) == IF little_endian THEN Reverse(addr) ELSE addr

bytes_to_ip(bytes) == << bytes[1], bytes[2], bytes[3], bytes[4] >>

EncodeTimeTicks(ticks) == EncodeInteger(TAG_TIMETICKS, ticks)

DecodeTimeTicks(bs) == DecodeInteger(bs, TAG_TIMETICKS, 0)

EncodeValue(val) ==
    CASE val.kind = "Null" -> EncodeNull(TAG_NULL)
      [] val.kind = "Oid" -> EncodeOid(val.v)
      [] val.kind = "Integer" -> EncodeInteger(TAG_INTEGER, val.v[1])
      [] val.kind = "IpAddr" -> EncodeOctetString(TAG_IPADDR, ip_to_bytes(val.v))
      [] val.kind = "Gauge32" -> EncodeInteger(TAG_GAUGE32, val.v[1])
      [] val.kind = "Counter32" -> EncodeInteger(TAG_COUNTER32, val.v[1])
      [] val.kind = "Counter64" -> EncodeInteger(TAG_COUNTER64, val.v[1])
      [] val.kind = "Timeticks" -> EncodeTimeTicks(val.v[1])
      [] val.kind = "OctetStr" -> EncodeOctetString(TAG_OCTET_STRING, val.v)
      [] val.kind = "Opaque" -> EncodeOctetString(TAG_OPAQUE, val.v)
      [] val.kind = "NoSuchObject" -> EncodeNull(TAG_NOSUCHOBJECT)
      [] val.kind = "NoSuchInstance" -> EncodeNull(TAG_NOSUCHINSTANCE)
      [] val.kind = "EndOfMIBView" -> EncodeNull(TAG_ENDOFMIBVIEW)

\* the decoded payload r wrapped as the variant `kind`
Wrap(r, kind) == IF r.ok THEN Ok([v |-> Val(kind, r.val.v), rest |-> r.val.rest]) ELSE r

WrapNum(r, kind) ==
    IF r.ok THEN Ok([v |-> Num(kind, r.val.v), rest |-> r.val.rest]) ELSE r

\* the arm of a unit value: the decoded () is mapped to `val`
Unit(r, val) == IF r.ok THEN Ok([v |-> val, rest |-> r.val.rest]) ELSE r

IpAddrOf(r) ==
    IF ~r.ok THEN r
    ELSE IF Len(r.val.v) # 4 THEN Err("InvalidLength")
    ELSE Ok([v |-> Val("IpAddr", bytes_to_ip(r.val.v)), rest |-> r.val.rest])

\* the arms of decode_with_tag's match on the peeked tag
ValueOf(bs, tag) ==
    CASE tag = TAG_NULL -> Unit(DecodeNull(bs, TAG_NULL), Null)
      [] tag = TAG_OBJECT_IDENTIFIER -> Wrap(DecodeOid(bs), "Oid")
      [] tag = TAG_INTEGER -> WrapNum(DecodeInteger(bs, TAG_INTEGER, MinI32), "Integer")
      [] tag = TAG_IPADDR -> IpAddrOf(DecodeOctetString(bs, TAG_IPADDR))
      [] tag = TAG_GAUGE32 -> WrapNum(DecodeInteger(bs, TAG_GAUGE32, 0), "Gauge32")
      [] tag = TAG_COUNTER32 -> WrapNum(DecodeInteger(bs, TAG_COUNTER32, 0), "Counter32")
      [] tag = TAG_COUNTER64 -> WrapNum(DecodeInteger(bs, TAG_COUNTER64, 0), "Counter64")
      [] tag = TAG_TIMETICKS -> WrapNum(DecodeTimeTicks(bs), "Timeticks")
      [] tag = TAG_OCTET_STRING ->
           Wrap(DecodeOctetString(bs, TAG_OCTET_STRING), "OctetStr")
      [] tag = TAG_OPAQUE -> Wrap(DecodeOctetString(bs, TAG_OPAQUE), "Opaque")
      [] tag = TAG_NOSUCHOBJECT -> Unit(DecodeNull(bs, TAG_NOSUCHOBJECT), Null)
      [] tag = TAG_NOSUCHINSTANCE -> Unit(DecodeNull(bs, TAG_NOSUCHINSTANCE), Null)
      [] tag = TAG_ENDOFMIBVIEW -> Unit(DecodeNull(bs, TAG_ENDOFMIBVIEW), Null)
      [] OTHER -> Err("UnexpectedTag")

ValuePeeked(bs, p) == IF ~p.ok THEN p ELSE ValueOf(bs, p.val)

DecodeValue(bs) == ValuePeeked(bs, TagOf(ReadTLV(bs)))

Top(r) == IF r.ok THEN Ok(r.val.v) ELSE r

\* rasn::ber::decode::<Value>: the value at the head of the input
DecodeValueTop(bs) == Top(DecodeValue(bs))

-----------------------------------------------------------------------------
(* PduTag (pdu.rs).                                                        *)

PduTag == { "GetRequest", "GetNextRequest", "GetResponse", "SetRequest", "Trap",
            "GetBulkRequest", "InformRequest", "TrapV2", "Report" }

into_tag(t) ==
    CASE t = "GetRequest" -> TAG_MSG_GET
      [] t = "GetNextRequest" -> TAG_MSG_GETNEXT
      [] t = "GetResponse" -> TAG_MSG_RESPONSE
      [] t = "SetRequest" -> TAG_MSG_SET
      [] t = "Trap" -> TAG_MSG_TRAPV1
      [] t = "GetBulkRequest" -> TAG_MSG_GETBULK
      [] t = "InformRequest" -> TAG_MSG_INFORM
      [] t = "TrapV2" -> TAG_MSG_TRAPV2
      [] t = "Report" -> TAG_MSG_REPORT

\* from_tag with the Report arm decoding to the operation of another arm
from_tag_shared(tag) ==
    CASE tag = TAG_MSG_GET -> Ok("GetRequest")
      [] tag = TAG_MSG_GETNEXT -> Ok("GetNextRequest")
      [] tag = TAG_MSG_RESPONSE -> Ok("GetResponse")
      [] tag = TAG_MSG_SET -> Ok("SetRequest")
      [] tag = TAG_MSG_TRAPV1 -> Ok("Trap")
      [] tag = TAG_MSG_GETBULK -> Ok("GetBulkRequest")
      [] tag = TAG_MSG_INFORM -> Ok("InformRequest")
      [] tag = TAG_MSG_TRAPV2 -> Ok("TrapV2")
      [] tag = TAG_MSG_REPORT -> Ok("GetResponse")
      [] OTHER -> Err("()")

from_tag(tag) ==
    CASE tag = TAG_MSG_GET -> Ok("GetRequest")
      [] tag = TAG_MSG_GETNEXT -> Ok("GetNextRequest")
      [] tag = TAG_MSG_RESPONSE -> Ok("GetResponse")
      [] tag = TAG_MSG_SET -> Ok("SetRequest")
      [] tag = TAG_MSG_TRAPV1 -> Ok("Trap")
      [] tag = TAG_MSG_GETBULK -> Ok("GetBulkRequest")
      [] tag = TAG_MSG_INFORM -> Ok("InformRequest")
      [] tag = TAG_MSG_TRAPV2 -> Ok("TrapV2")
      [] tag = TAG_MSG_REPORT -> Ok("Report")
      [] OTHER -> Err("()")

\* PduTag::from_tag of the draft (lib.rs). A match takes the first arm whose
\* pattern fits, and the draft's ninth pattern repeats its third.
lib_from_tag(tag) ==
    IF tag = TAG_MSG_GET THEN Ok("GetRequest")
    ELSE IF tag = TAG_MSG_GETNEXT THEN Ok("GetNextRequest")
    ELSE IF tag = TAG_MSG_RESPONSE THEN Ok("GetResponse")
    ELSE IF tag = TAG_MSG_SET THEN Ok("SetRequest")
    ELSE IF tag = TAG_MSG_TRAPV1 THEN Ok("Trap")
    ELSE IF tag = TAG_MSG_GETBULK THEN Ok("GetBulkRequest")
    ELSE IF tag = TAG_MSG_INFORM THEN Ok("InformRequest")
    ELSE IF tag = TAG_MSG_TRAPV2 THEN Ok("TrapV2")
    ELSE IF tag = TAG_MSG_RESPONSE THEN Ok("Report")
    ELSE Err("()")

-----------------------------------------------------------------------------
(* Version and VarBinding (types.rs).                                      *)

Version == { "V1", "V2C", "V3" }

EncodeVersion(ver) ==
    CASE ver = "V1" -> EncodeInteger(TAG_INTEGER, 0)
      [] ver = "V2C" -> EncodeInteger(TAG_INTEGER, 1)
      [] ver = "V3" -> EncodeInteger(TAG_INTEGER, 2)

VersionOf(r) ==
    IF ~r.ok THEN r
    ELSE CASE r.val.v = 0 -> Ok([v |-> "V1", rest |-> r.val.rest])
           [] r.val.v = 1 -> Ok([v |-> "V2C", rest |-> r.val.rest])
           [] r.val.v = 2 -> Ok([v |-> "V3", rest |-> r.val.rest])
           [] OTHER -> Err("Unexpected version")

DecodeVersion(bs) == VersionOf(DecodeInteger(bs, TAG_INTEGER, MinI32))

VarBinding(name, value) == [name |-> name, value |-> value]

null_from(name) == VarBinding(name, Null)

EncodeVarBinding(vb) ==
    TLV(TAG_SEQUENCE, TRUE, EncodeOid(vb.name) \o EncodeValue(vb.value))

BindingValued(name, value, rest) ==
    IF ~value.ok THEN value ELSE Ok([v |-> VarBinding(name, value.val.v), rest |-> rest])

BindingNamed(name, rest) ==
    IF ~name.ok THEN name
    ELSE BindingValued(name.val.v, DecodeValue(name.val.rest), rest)

BindingIn(seq) ==
    IF ~seq.ok THEN seq ELSE BindingNamed(DecodeOid(seq.val.content), seq.val.rest)

DecodeVarBinding(bs) == BindingIn(Expect(bs, TAG_SEQUENCE))

RECURSIVE EncodeEach(_)
EncodeEach(bindings) ==
    IF bindings = << >> THEN << >>
    ELSE EncodeVarBinding(Head(bindings)) \o EncodeEach(Tail(bindings))

\* Vec<VarBinding>::encode: a SEQUENCE OF the bindings, in order
EncodeBindings(bindings) == TLV(TAG_SEQUENCE, TRUE, EncodeEach(bindings))

RECURSIVE DecodeEach(_)

\* EachFrom ending the list at a binding that does not decode
EachFrom_partial(vb) ==
    IF ~vb.ok THEN Ok(<< >>) ELSE Cons(vb.val.v, DecodeEach(vb.val.rest))

EachFrom(vb) == IF ~vb.ok THEN vb ELSE Cons(vb.val.v, DecodeEach(vb.val.rest))

DecodeEach(bs) == IF bs = << >> THEN Ok(<< >>) ELSE EachFrom(DecodeVarBinding(bs))

Listed(each, rest) == IF ~each.ok THEN each ELSE Ok([v |-> each.val, rest |-> rest])

BindingsIn(seq) ==
    IF ~seq.ok THEN seq ELSE Listed(DecodeEach(seq.val.content), seq.val.rest)

\* decode_sequence_of(VarBinding::TAG)
DecodeBindings(bs) == BindingsIn(Expect(bs, TAG_SEQUENCE))

-----------------------------------------------------------------------------
(* Pdu and Message (pdu.rs).                                               *)

Pdu_new(tag, request_id) ==
    [tag |-> tag, request_id |-> request_id, err_status |-> 0, err_index |-> 0,
     bindings |-> << >>]

with_error(pdu, err_status, err_index) ==
    [pdu EXCEPT !.err_status = err_status, !.err_index = err_index]

with_bindings(pdu, bindings) ==
    [pdu EXCEPT !.bindings = pdu.bindings \o bindings]

with_null_bindings(pdu, names) ==
    [pdu EXCEPT !.bindings = pdu.bindings \o [i \in 1..Len(names) |-> null_from(names[i])]]

\* set_bulk_repetitions keeping an error status and index set before
set_bulk_repetitions_kept(pdu, num_repeaters, max_repititions) ==
    IF pdu.err_status # 0 THEN pdu
    ELSE [pdu EXCEPT !.err_status = num_repeaters, !.err_index = max_repititions]

set_bulk_repetitions(pdu, num_repeaters, max_repititions) ==
    [pdu EXCEPT !.err_status = num_repeaters, !.err_index = max_repititions]

Pdu_error(pdu) == IF pdu.err_status = 0 THEN Ok(<< >>) ELSE Err(pdu.err_status)

EncodePdu(pdu) ==
    TLV(into_tag(pdu.tag), TRUE,
        EncodeInteger(TAG_INTEGER, pdu.request_id)
        \o EncodeInteger(TAG_INTEGER, pdu.err_status)
        \o EncodeInteger(TAG_INTEGER, pdu.err_index)
        \o EncodeBindings(pdu.bindings))

PduBindings(tag, rest, request_id, err_status, err_index, bindings) ==
    IF ~bindings.ok THEN bindings
    ELSE Ok([v |-> [tag |-> tag, request_id |-> request_id, err_status |-> err_status,
                    err_index |-> err_index, bindings |-> bindings.val.v],
             rest |-> rest])

PduIndex(tag, rest, request_id, err_status, err_index) ==
    IF ~err_index.ok THEN err_index
    ELSE PduBindings(tag, rest, request_id, err_status, err_index.val.v,
                     DecodeBindings(err_index.val.rest))

PduStatus(tag, rest, request_id, err_status) ==
    IF ~err_status.ok THEN err_status
    ELSE PduIndex(tag, rest, request_id, err_status.val.v,
                  DecodeInteger(err_status.val.rest, TAG_INTEGER, MinI32))

PduId(tag, rest, request_id) ==
    IF ~request_id.ok THEN request_id
    ELSE PduStatus(tag, rest, request_id.val.v,
                   DecodeInteger(request_id.val.rest, TAG_INTEGER, MinI32))

PduIn(tag, seq) ==
    IF ~seq.ok THEN seq
    ELSE PduId(tag, seq.val.rest, DecodeInteger(seq.val.content, TAG_INTEGER, MinI32))

PduTagged(bs, pdu_tag, tag) ==
    IF ~tag.ok THEN Err("Unexpected PDU Tag") ELSE PduIn(tag.val, Expect(bs, pdu_tag))

PduPeeked(bs, p) == IF ~p.ok THEN p ELSE PduTagged(bs, p.val, from_tag(p.val))

DecodePdu(bs) == PduPeeked(bs, TagOf(ReadTLV(bs)))

Message_new(ver, community, data) ==
    [version |-> ver, community |-> community, data |-> data]

\* a community is the sequence of the octets of its text
EncodeMessage(msg) ==
    TLV(TAG_SEQUENCE, TRUE,
        EncodeVersion(msg.version)
        \o EncodeOctetString(TAG_OCTET_STRING, msg.community)
        \o EncodePdu(msg.data))

MessageData(ver, community, data) ==
    IF ~data.ok THEN data ELSE Ok(Message_new(ver, community, data.val.v))

MessageCommunity(ver, community) ==
    IF ~community.ok THEN community
    ELSE MessageData(ver, community.val.v, DecodePdu(community.val.rest))

MessageVersion(ver) ==
    IF ~ver.ok THEN ver
    ELSE MessageCommunity(ver.val.v, DecodeOctetString(ver.val.rest, TAG_OCTET_STRING))

MessageIn(seq) == IF ~seq.ok THEN seq ELSE MessageVersion(DecodeVersion(seq.val.content))

DecodeMessage(bs) == MessageIn(Expect(bs, TAG_SEQUENCE))

-----------------------------------------------------------------------------
(* Client (client.rs).                                                     *)

public == << 112, 117, 98, 108, 105, 99 >>
private == << 112, 114, 105, 118, 97, 116, 101 >>

\* no call yet.  args: the arguments of the call (oids, and for get_bulk the
\* non-repeating oids, the repetitions and the repeating oids `more`; for set
\* the bindings); held: the communities of the client when the call was made;
\* env: what the transport and the agent did during the call
NoArgs == [oids |-> << >>, repetitions |-> 0, more |-> << >>, bindings |-> << >>]

NoCall == [op |-> "none", args |-> NoArgs, pdu |-> Pdu_new("none", 0),
           held |-> << public, private >>,
           env |-> [encode_ok |-> TRUE, send_ok |-> TRUE, recv |-> << >>],
           steps |-> << >>, sent |-> << >>, result |-> Err(0)]

\* increment_request leaving the counter as it was
increment_request_stuck ==
    [panic |-> current_request = MaxI32 /\ overflow_checks,
     request |-> current_request,
     next |-> current_request]

\* self.current_request += 1: at i32::MAX a build with overflow checks panics,
\* a build without them wraps
increment_request ==
    [panic |-> current_request = MaxI32 /\ overflow_checks,
     request |-> current_request,
     next |-> IF current_request = MaxI32 THEN MinI32 ELSE current_request + 1]

RecvFail == << >>

\* Received refusing a reply whose request id is not the one of the request
Received_correlated(buf, reply) ==
    [steps |-> << "encode", "send", "recv", "decode" >>, sent |-> << buf >>,
     result |-> IF ~reply.ok THEN Err(-4)
                ELSE IF reply.val.data.request_id # DecodeMessage(buf).val.data.request_id
                THEN Err(-4)
                ELSE Ok(reply.val.data.bindings)]

\* Received reporting a decode failure with the code of a receive failure
Received_merged(buf, reply) ==
    [steps |-> << "encode", "send", "recv", "decode" >>, sent |-> << buf >>,
     result |-> IF ~reply.ok THEN Err(-3) ELSE Ok(reply.val.data.bindings)]

\* the last step: the datagram received has been handed to decode
Received(buf, reply) ==
    [steps |-> << "encode", "send", "recv", "decode" >>, sent |-> << buf >>,
     result |-> IF ~reply.ok THEN Err(-4) ELSE Ok(reply.val.data.bindings)]

\* Exchange sending a second time when the send fails
Exchange_retry(buf, env) ==
    IF ~env.encode_ok
    THEN [steps |-> << "encode" >>, sent |-> << >>, result |-> Err(-1)]
    ELSE IF ~env.send_ok
    THEN [steps |-> << "encode", "send", "send" >>, sent |-> << buf, buf >>,
          result |-> Err(-2)]
    ELSE IF env.recv = RecvFail
    THEN [steps |-> << "encode", "send", "recv" >>, sent |-> << buf >>,
          result |-> Err(-3)]
    ELSE Received(buf, DecodeMessage(env.recv))

\* env: whether encode and send succeed, and what recv yields (RecvFail or the
\* datagram received).  steps: the steps run, in order; sent: the buffers handed
\* to socket.send.
Exchange(buf, env) ==
    IF ~env.encode_ok
    THEN [steps |-> << "encode" >>, sent |-> << >>, result |-> Err(-1)]
    ELSE IF ~env.send_ok
    THEN [steps |-> << "encode", "send" >>, sent |-> << buf >>, result |-> Err(-2)]
    ELSE IF env.recv = RecvFail
    THEN [steps |-> << "encode", "send", "recv" >>, sent |-> << buf >>,
          result |-> Err(-3)]
    ELSE Received(buf, DecodeMessage(env.recv))

send_and_recv(pdu, env) ==
    Exchange(EncodeMessage(Message_new(version, read_community, pdu)), env)

\* the call has run: the counter is advanced and what the call did is
\* recorded, with the steps, the buffers sent and the result of the exchange x
Called(op, args, pdu, env, next, x) ==
    /\ current_request' = next
    /\ call' = x @@ [op |-> op, args |-> args, pdu |-> pdu,
                     held |-> << read_community, write_community >>, env |-> env]
    /\ calls' = Append(calls, pdu.request_id)
    /\ UNCHANGED << version, read_community, write_community, client_pc >>

\* one call of a client operation: increment_request has given the request id
\* the pdu is built from, and the pdu is exchanged
Call(op, args, pdu, env) ==
    IF increment_request.panic
    THEN /\ client_pc' = "panicked"
         /\ call' = [NoCall EXCEPT !.op = op, !.args = args,
                                   !.held = << read_community, write_community >>]
         /\ UNCHANGED << version, current_request, read_community,
                         write_community, calls >>
    ELSE Called(op, args, pdu, env, increment_request.next, send_and_recv(pdu, env))

get(names, env) ==
    LET request_id == increment_request.request
        pdu == with_null_bindings(Pdu_new("GetRequest", request_id), names)
    IN  Call("get", [NoArgs EXCEPT !.oids = names], pdu, env)

\* get_next building its Pdu under the tag of get
get_next_as_get(names, env) ==
    LET request_id == increment_request.request
        pdu == with_null_bindings(Pdu_new("GetRequest", request_id), names)
    IN  Call("get_next", [NoArgs EXCEPT !.oids = names], pdu, env)

get_next(names, env) ==
    LET request_id == increment_request.request
        pdu == with_null_bindings(Pdu_new("GetNextRequest", request_id), names)
    IN  Call("get_next", [NoArgs EXCEPT !.oids = names], pdu, env)

\* get_bulk binding the repeating oids before the non-repeating ones
get_bulk_swapped(non_repeating_oids, repetitions, repeating_oids, env) ==
    LET request_id == increment_request.request
        pdu == with_null_bindings(
                   with_null_bindings(
                       set_bulk_repetitions(Pdu_new("GetBulkRequest", request_id),
                                            Len(non_repeating_oids), repetitions),
                       repeating_oids),
                   non_repeating_oids)
    IN  Call("get_bulk",
             [NoArgs EXCEPT !.oids = non_repeating_oids, !.repetitions = repetitions,
                            !.more = repeating_oids],
             pdu, env)

get_bulk(non_repeating_oids, repetitions, repeating_oids, env) ==
    LET request_id == increment_request.request
        pdu == with_null_bindings(
                   with_null_bindings(
                       set_bulk_repetitions(Pdu_new("GetBulkRequest", request_id),
                                            Len(non_repeating_oids), repetitions),
                       non_repeating_oids),
                   repeating_oids)
    IN  Call("get_bulk",
             [NoArgs EXCEPT !.oids = non_repeating_oids, !.repetitions = repetitions,
                            !.more = repeating_oids],
             pdu, env)

\* set dropping the values of the bindings it is given
set_nulled(bindings, env) ==
    LET request_id == increment_request.request
        pdu == with_null_bindings(Pdu_new("SetRequest", request_id),
                                  [i \in 1..Len(bindings) |-> bindings[i].name])
    IN  Call("set", [NoArgs EXCEPT !.bindings = bindings], pdu, env)

set(bindings, env) ==
    LET request_id == increment_request.request
        pdu == with_bindings(Pdu_new("SetRequest", request_id), bindings)
    IN  Call("set", [NoArgs EXCEPT !.bindings = bindings], pdu, env)

\* set_communities starting the request ids anew
set_communities_reseed(read, write) ==
    /\ read_community' = read
    /\ write_community' = write
    /\ current_request' = 0
    /\ UNCHANGED << version, client_pc, call, calls >>

set_communities(read, write) ==
    /\ read_community' = read
    /\ write_community' = write
    /\ UNCHANGED << version, current_request, client_pc, call, calls >>

-----------------------------------------------------------------------------
(* The parts of the state a specification does not exercise.               *)

NoTag == Tag("none", 0)

CodecIdle ==
    /\ codec_pc = "off"
    /\ value_in = Null
    /\ value_bytes = << >>
    /\ value_out = Err("none")

TagIdle ==
    /\ tag_pc = "off"
    /\ ptag_in = "none"
    /\ wire_tag = NoTag
    /\ ptag_out = Err("none")
    /\ ptag_lib = Err("none")

PduIdle ==
    /\ pdu_op = [op |-> "none", a |-> 0, b |-> 0]
    /\ pdu_before = Pdu_new("none", 0)
    /\ pdu_built = Pdu_new("none", 0)
    /\ pdu_bytes = << >>

ClientIdle ==
    /\ version = "V2C"
    /\ current_request = 0
    /\ read_community = public
    /\ write_community = private
    /\ client_pc = "off"
    /\ call = NoCall
    /\ calls = << >>

WalkIdle ==
    /\ walk_pc = "off"
    /\ oids = << >>
    /\ vars_ = << >>
    /\ emitted = << >>
    /\ agent_log = << >>

-----------------------------------------------------------------------------
(* The Value codec on its own: encode a value, then decode the bytes.      *)

\* the values the codec is run on: every variant, with the numbers at which the
\* width of an encoding changes
Values ==
    { Null, NoSuchObject, NoSuchInstance, EndOfMIBView }
    \cup { Val("Oid", o) :
             o \in { << 1, 3, 6 >>, << 1, 3, 6, 1, 2, 1 >>, << 1, 2, 3 >>, << 2, 100, 3 >>,
                     << 0, 0 >>, << 1, 3, 6, 1, 4, 1, 8072 >> } }
    \cup { Num("Integer", i) :
             i \in { MinI32, -32769, -129, -128, -1, 0, 5, 127, 128, 255, 256, 32768,
                     MaxI32 } }
    \cup { Val("IpAddr", a) :
             a \in { << 10, 0, 0, 1 >>, << 127, 0, 0, 1 >>, << 1, 2, 2, 1 >>,
                     << 0, 0, 0, 0 >>, << 192, 168, 1, 255 >> } }
    \cup { Num(k, u) : k \in { "Gauge32", "Counter32", "Counter64", "Timeticks" },
                       u \in { 0, 1, 127, 128, 255, 1234, 65535, 65536, MaxI32 } }
    \cup { Val(k, b) : k \in { "OctetStr", "Opaque" },
                       b \in { << >>, << 3, 4, 5 >>, << 255 >>, << 5, 0 >> } }

InitCodec ==
    /\ little_endian \in BOOLEAN
    /\ overflow_checks = FALSE
    /\ codec_pc = "in"
    /\ value_in \in Values
    /\ value_bytes = << >>
    /\ value_out = Err("none")
    /\ TagIdle /\ PduIdle /\ ClientIdle /\ WalkIdle

CodecEncode ==
    /\ codec_pc = "in"
    /\ value_bytes' = EncodeValue(value_in)
    /\ codec_pc' = "encoded"
    /\ UNCHANGED << value_in, value_out, buildVars, pduVars, tagVars, clientVars, walkVars >>

CodecDecode ==
    /\ codec_pc = "encoded"
    /\ value_out' = DecodeValueTop(value_bytes)
    /\ codec_pc' = "decoded"
    /\ UNCHANGED << value_in, value_bytes, buildVars, pduVars, tagVars, clientVars, walkVars >>

NextCodec == CodecEncode \/ CodecDecode

SpecCodec == InitCodec /\ [][NextCodec]_vars

\* C1: once a value has been encoded and the bytes decoded, the decoding has
\* succeeded and yields the value that was encoded, for every variant.
C1_ValueRoundTrip == codec_pc = "decoded" => value_out = Ok(value_in)

\* C16: an IpAddr a.b.c.d is encoded as the application tag 0, the length 4 and
\* the octets a, b, c, d in that order, and decoding yields a.b.c.d again.
C16_IpAddrWireOrder ==
    value_in.kind = "IpAddr" =>
        /\ codec_pc \in { "encoded", "decoded" } => value_bytes = << 64, 4 >> \o value_in.v
        /\ codec_pc = "decoded" => value_out = Ok(value_in)

-----------------------------------------------------------------------------
(* The PduTag mapping on its own: an operation through into_tag and back   *)
(* through from_tag, or an arbitrary wire tag through from_tag; the wire   *)
(* tag then goes through the from_tag of the draft as well.                *)

MaxTagNum == 30

InitTags ==
    /\ little_endian = TRUE
    /\ overflow_checks = FALSE
    /\ tag_pc = "in"
    /\ \/ ptag_in \in PduTag /\ wire_tag = NoTag
       \/ /\ ptag_in = "none"
          /\ wire_tag \in { Tag(c, n) : c \in { "Universal", "Application", "Context",
                                                "Private" },
                                       n \in 0..MaxTagNum }
    /\ ptag_out = Err("none")
    /\ ptag_lib = Err("none")
    /\ CodecIdle /\ PduIdle /\ ClientIdle /\ WalkIdle

TagInto ==
    /\ tag_pc = "in"
    /\ ptag_in # "none"
    /\ wire_tag' = into_tag(ptag_in)
    /\ tag_pc' = "mapped"
    /\ UNCHANGED << ptag_in, ptag_out, ptag_lib, buildVars, pduVars, codecVars, clientVars,
                    walkVars >>

TagFrom ==
    /\ \/ tag_pc = "mapped"
       \/ tag_pc = "in" /\ ptag_in = "none"
    /\ ptag_out' = from_tag(wire_tag)
    /\ tag_pc' = "back"
    /\ UNCHANGED << ptag_in, wire_tag, ptag_lib, buildVars, pduVars, codecVars, clientVars,
                    walkVars >>

\* the same wire tag handed to the draft's from_tag
TagFromLib ==
    /\ tag_pc = "back"
    /\ ptag_lib' = lib_from_tag(wire_tag)
    /\ tag_pc' = "both"
    /\ UNCHANGED << ptag_in, wire_tag, ptag_out, buildVars, pduVars, codecVars, clientVars,
                    walkVars >>

NextTags == TagInto \/ TagFrom \/ TagFromLib

SpecTags == InitTags /\ [][NextTags]_vars

\* the context tag number the table of the wire format gives each operation
TableNumber(t) ==
    CASE t = "GetRequest" -> 0
      [] t = "GetNextRequest" -> 1
      [] t = "GetResponse" -> 2
      [] t = "SetRequest" -> 3
      [] t = "Trap" -> 4
      [] t = "GetBulkRequest" -> 5
      [] t = "InformRequest" -> 6
      [] t = "TrapV2" -> 7
      [] t = "Report" -> 8

TableTags == { Tag("Context", TableNumber(t)) : t \in PduTag }

\* C4: into_tag gives each operation the context tag of the table; from_tag
\* returns the operation into_tag was given, returns for each tag of the table
\* the one operation of that number, and rejects every tag outside the table.
C4_TagBijection ==
    /\ tag_pc \in { "mapped", "back" } /\ ptag_in # "none"
          => wire_tag = Tag("Context", TableNumber(ptag_in))
    /\ tag_pc = "back" /\ ptag_in # "none" => ptag_out = Ok(ptag_in)
    /\ tag_pc = "back" /\ ptag_in = "none" /\ wire_tag \notin TableTags => ~ptag_out.ok
    /\ tag_pc = "back" /\ ptag_in = "none" /\ wire_tag \in TableTags
          => /\ ptag_out.ok
             /\ ptag_out.val \in PduTag
             /\ wire_tag = Tag("Context", TableNumber(ptag_out.val))

C4_Witness ==
    /\ tag_pc = "back"
    /\ ptag_in = "Report"
    /\ wire_tag = Tag("Context", 8)
    /\ ptag_out = Ok("Report")

\* C21: for every wire tag, from_tag of the draft (lib.rs) and from_tag of pdu.rs
\* give the same result: both reject the tag or both return the same operation;
\* context tag 8 is Report for both and context tag 2 is GetResponse for both.
C21_DraftAgrees ==
    tag_pc = "both" =>
        /\ ptag_lib = ptag_out
        /\ wire_tag = Tag("Context", 8) => ptag_lib = Ok("Report") /\ ptag_out = Ok("Report")
        /\ wire_tag = Tag("Context", 2)
              => ptag_lib = Ok("GetResponse") /\ ptag_out = Ok("GetResponse")

-----------------------------------------------------------------------------
(* The Pdu builders and encode: a Pdu is built, its two integer fields are *)
(* set as an error or as bulk repetitions, any number of times, and it is  *)
(* encoded.                                                                *)

InitPdu ==
    /\ little_endian = TRUE
    /\ overflow_checks = FALSE
    /\ pdu_op = [op |-> "new", a |-> 0, b |-> 0]
    /\ pdu_built \in
          { with_bindings(Pdu_new(tag, request_id), bindings) :
              tag \in { "GetBulkRequest", "GetResponse", "Report" },
              request_id \in { -1, MaxI32 },
              bindings \in { << >>,
                             << VarBinding(<< 1, 3, 7 >>, Num("Gauge32", 128)),
                                VarBinding(<< 1, 3, 6, 1 >>, Null) >> } }
    /\ pdu_before = pdu_built
    /\ pdu_bytes = << >>
    /\ CodecIdle /\ TagIdle /\ ClientIdle /\ WalkIdle

PduWithError ==
    /\ pdu_bytes = << >>
    /\ \E err \in { << 2, 1 >>, << 5, 0 >>, << 0, 3 >> } :
          /\ pdu_op' = [op |-> "with_error", a |-> err[1], b |-> err[2]]
          /\ pdu_built' = with_error(pdu_built, err[1], err[2])
    /\ pdu_before' = pdu_built
    /\ UNCHANGED << pdu_bytes, buildVars, codecVars, tagVars, clientVars, walkVars >>

PduSetBulkRepetitions ==
    /\ pdu_bytes = << >>
    /\ \E rep \in { << 0, 10 >>, << 1, 0 >>, << 3, -1 >> } :
          /\ pdu_op' = [op |-> "set_bulk_repetitions", a |-> rep[1], b |-> rep[2]]
          /\ pdu_built' = set_bulk_repetitions(pdu_built, rep[1], rep[2])
    /\ pdu_before' = pdu_built
    /\ UNCHANGED << pdu_bytes, buildVars, codecVars, tagVars, clientVars, walkVars >>

PduEncode ==
    /\ pdu_bytes = << >>
    /\ pdu_bytes' = EncodePdu(pdu_built)
    /\ UNCHANGED << pdu_op, pdu_before, pdu_built, buildVars, codecVars, tagVars,
                    clientVars, walkVars >>

NextPdu == PduWithError \/ PduSetBulkRepetitions \/ PduEncode

SpecPdu == InitPdu /\ [][NextPdu]_vars

\* C14: after set_bulk_repetitions(n, m) on a Pdu, whatever with_error set on
\* it before, the tag, the request id and the bindings are those of the Pdu
\* the call was made on, and the second and third integer fields of the
\* encoded Pdu are n and m.
C14_BulkFieldOverload ==
    pdu_op.op = "set_bulk_repetitions" =>
        /\ pdu_built.tag = pdu_before.tag
        /\ pdu_built.request_id = pdu_before.request_id
        /\ pdu_built.bindings = pdu_before.bindings
        /\ pdu_bytes # << >> =>
              /\ DecodePdu(pdu_bytes).ok
              /\ DecodePdu(pdu_bytes).val.v =
                    [tag |-> pdu_before.tag, request_id |-> pdu_before.request_id,
                     err_status |-> pdu_op.a, err_index |-> pdu_op.b,
                     bindings |-> pdu_before.bindings]

C14_Witness ==
    /\ pdu_op = [op |-> "set_bulk_repetitions", a |-> 1, b |-> 0]
    /\ pdu_before.err_status = 2 /\ pdu_before.err_index = 1
    /\ Len(pdu_before.bindings) = 2
    /\ pdu_bytes # << >>

-----------------------------------------------------------------------------
(* The Client under arbitrary callers, transports and agents.              *)

MaxCalls == 2

OidLists == { << << 1, 3, 6 >> >>, << << 1, 3, 6, 1 >>, << 1, 3, 7 >> >> }

BindingLists ==
    { << VarBinding(<< 1, 3, 7 >>, Val("OctetStr", << 3, 4 >>)),
         VarBinding(<< 1, 3, 6, 1 >>, Num("Integer", 5)) >>,
      << VarBinding(<< 1, 3, 6 >>, EndOfMIBView) >> }

\* what a reply to the request `rid` may carry: its bindings, the bindings of
\* another request, an error status and index, or an exception value
ReplyPdus(rid) ==
    { with_bindings(Pdu_new("GetResponse", rid),
                    << VarBinding(<< 1, 3, 7 >>, Num("Gauge32", 128)),
                       VarBinding(<< 1, 3, 6, 1 >>, Val("OctetStr", << 1, 2 >>)) >>),
      with_bindings(Pdu_new("GetResponse", IF rid = 0 THEN 1 ELSE 0),
                    << VarBinding(<< 1, 3, 6, 2 >>, Null) >>),
      with_error(with_bindings(Pdu_new("GetResponse", rid),
                               << VarBinding(<< 1, 3, 6 >>, Null) >>), 2, 1),
      with_bindings(Pdu_new("GetResponse", rid),
                    << VarBinding(<< 1, 3, 6, 3 >>, NoSuchInstance) >>) }

\* a datagram whose version integer, pdu tag and the value of its second
\* binding are given raw; its first binding is well formed
RawMessage(ver, pdu_tag, value) ==
    TLV(TAG_SEQUENCE, TRUE,
        EncodeInteger(TAG_INTEGER, ver)
        \o EncodeOctetString(TAG_OCTET_STRING, public)
        \o TLV(pdu_tag, TRUE,
               EncodeInteger(TAG_INTEGER, 0) \o EncodeInteger(TAG_INTEGER, 0)
               \o EncodeInteger(TAG_INTEGER, 0)
               \o TLV(TAG_SEQUENCE, TRUE,
                      EncodeVarBinding(VarBinding(<< 1, 3, 6, 1 >>, Num("Integer", 5)))
                      \o TLV(TAG_SEQUENCE, TRUE, EncodeOid(<< 1, 3, 6 >>) \o value))))

\* datagrams that are no encoding of a Message: the version is outside 0..2, or
\* the tag of the Pdu is none of the nine operations, or the tag of a value is
\* none of the Value tags, or an IpAddress is not 4 bytes long
Malformed ==
    { RawMessage(3, TAG_MSG_RESPONSE, EncodeNull(TAG_NULL)),
      RawMessage(1, Tag("Context", 9), EncodeNull(TAG_NULL)),
      RawMessage(1, TAG_MSG_RESPONSE, TLV(Tag("Application", 5), FALSE, << >>)),
      RawMessage(1, TAG_MSG_RESPONSE, EncodeOctetString(TAG_IPADDR, << 10, 0, 0 >>)) }

\* the outcomes of one exchange: encode fails, or send fails, or recv fails
\* or yields a datagram
Envs(rid) ==
    { [encode_ok |-> FALSE, send_ok |-> TRUE, recv |-> RecvFail],
      [encode_ok |-> TRUE, send_ok |-> FALSE, recv |-> RecvFail] }
    \cup { [encode_ok |-> TRUE, send_ok |-> TRUE, recv |-> d] :
             d \in { RecvFail } \cup Malformed
                   \cup { EncodeMessage(Message_new("V2C", public, pdu)) :
                            pdu \in ReplyPdus(rid) } }

InitClient ==
    /\ little_endian = TRUE
    /\ overflow_checks \in BOOLEAN
    /\ version = "V2C"
    /\ current_request \in { -1, MaxI32 - 1 }
    /\ read_community = public
    /\ write_community = private
    /\ client_pc = "ready"
    /\ call = NoCall
    /\ calls = << >>
    /\ CodecIdle /\ TagIdle /\ PduIdle /\ WalkIdle

CanCall == client_pc = "ready" /\ Len(calls) < MaxCalls

ClientGet ==
    /\ CanCall
    /\ \E names \in OidLists, env \in Envs(current_request) : get(names, env)
    /\ UNCHANGED << buildVars, pduVars, codecVars, tagVars, walkVars >>

ClientGetNext ==
    /\ CanCall
    /\ \E names \in OidLists, env \in Envs(current_request) : get_next(names, env)
    /\ UNCHANGED << buildVars, pduVars, codecVars, tagVars, walkVars >>

ClientGetBulk ==
    /\ CanCall
    /\ \E non_repeating \in { << >>, << << 1, 3, 6 >> >> }, repetitions \in { 10 },
          repeating \in { << << 1, 3, 6, 1 >>, << 1, 3, 7 >> >> },
          env \in Envs(current_request) :
          get_bulk(non_repeating, repetitions, repeating, env)
    /\ UNCHANGED << buildVars, pduVars, codecVars, tagVars, walkVars >>

ClientSet ==
    /\ CanCall
    /\ \E bindings \in BindingLists, env \in Envs(current_request) : set(bindings, env)
    /\ UNCHANGED << buildVars, pduVars, codecVars, tagVars, walkVars >>

ClientSetCommunities ==
    /\ client_pc = "ready"
    /\ \E pair \in { << << 115 >>, public >> } : set_communities(pair[1], pair[2])
    /\ UNCHANGED << buildVars, pduVars, codecVars, tagVars, walkVars >>

NextClient ==
    ClientGet \/ ClientGetNext \/ ClientGetBulk \/ ClientSet \/ ClientSetCommunities

SpecClient == InitClient /\ [][NextClient]_vars

-----------------------------------------------------------------------------
(* Claims about the Client.                                                *)

ClientOps == { "get", "get_next", "get_bulk", "set" }

\* a call has been made and has run its exchange
Exchanged == call.op \in ClientOps /\ call.steps # << >>

\* the community of the i-th buffer the call handed to send
SentCommunity(i) == DecodeMessage(call.sent[i]).val.community

\* C5: every message sent by get, get_next or get_bulk carries the read
\* community the client held, and every message sent by set carries the write
\* community it held.
C5_CommunitySelection ==
    Exchanged =>
        \A i \in 1..Len(call.sent) :
            SentCommunity(i) = IF call.op = "set" THEN call.held[2] ELSE call.held[1]

\* the reply of the call, when a datagram was received and decoded
Reply == DecodeMessage(call.env.recv)
Replied == Exchanged /\ Len(call.steps) = 4 /\ Reply.ok

\* C6: when the reply decodes to a Pdu whose errorStatus is nonzero, the call
\* does not return Ok: it returns an error that carries the status and index.
C6_ErrorsSurfaced ==
    Replied /\ Reply.val.data.err_status # 0
        => /\ ~call.result.ok
           /\ call.result.err = << Reply.val.data.err_status, Reply.val.data.err_index >>

Steps == << "encode", "send", "recv", "decode" >>

\* the first step of the exchange that fails under env, 0 when none does
FirstFailure(env) ==
    IF ~env.encode_ok THEN 1
    ELSE IF ~env.send_ok THEN 2
    ELSE IF env.recv = RecvFail THEN 3
    ELSE IF ~DecodeMessage(env.recv).ok THEN 4
    ELSE 0

\* the error value of each step: four values, pairwise distinct
StepError == << -1, -2, -3, -4 >>

\* C7: a call that fails returns the error value of the first step that
\* failed, the four values are pairwise distinct, and the steps run in the
\* order encode, send, receive, decode.
C7_FailureTaxonomy ==
    /\ \A i, j \in 1..4 : i # j => StepError[i] # StepError[j]
    /\ Exchanged =>
          /\ call.steps = SubSeq(Steps, 1, Len(call.steps))
          /\ call.result.ok <=> FirstFailure(call.env) = 0
          /\ ~call.result.ok => call.result.err = StepError[FirstFailure(call.env)]

C7_Witness ==
    /\ Exchanged
    /\ FirstFailure(call.env) = 4
    /\ call.result = Err(-4)

Count(seq, x) == Cardinality({ i \in 1..Len(seq) : seq[i] = x })

\* C8: a call sends at most once and receives at most once; when the send
\* fails nothing is received; and the step that fails is the last one run.
C8_NoRetry ==
    Exchanged =>
        /\ Count(call.steps, "send") <= 1
        /\ Count(call.steps, "recv") <= 1
        /\ Len(call.sent) = Count(call.steps, "send")
        /\ ~call.env.encode_ok => Len(call.sent) = 0
        /\ call.env.encode_ok /\ ~call.env.send_ok => Count(call.steps, "recv") = 0
        /\ FirstFailure(call.env) # 0
              => call.steps[Len(call.steps)] = Steps[FirstFailure(call.env)]

C8_Witness ==
    /\ Exchanged
    /\ call.env.encode_ok /\ ~call.env.send_ok
    /\ call.steps = << "encode", "send" >>
    /\ Len(call.sent) = 1

\* C9: while the counter is below the signed 32-bit maximum, every call takes
\* exactly one request id, also when its exchange fails: the id of its request
\* is one more than the id of the previous call's request, and the counter is
\* one more than the id of the last request.
C9_RequestIds ==
    /\ \A i \in 2..Len(calls) : calls[i - 1] < MaxI32 => calls[i] = calls[i - 1] + 1
    /\ Len(calls) > 0 /\ calls[Len(calls)] < MaxI32
          => current_request = calls[Len(calls)] + 1
    /\ Exchanged => call.pdu.request_id = calls[Len(calls)]
    /\ Exchanged /\ Len(call.sent) > 0
          => DecodeMessage(call.sent[1]).val.data.request_id = calls[Len(calls)]

C9_Witness ==
    /\ Len(calls) = 2
    /\ calls[1] < MaxI32 - 1
    /\ calls[2] = calls[1] + 1
    /\ ~call.result.ok
    /\ current_request = calls[2] + 1

\* C10: the call made with the counter at 2^31-1 completes normally with
\* request id 2^31-1 and leaves the counter at -2^31; no call aborts.
C10_WrapSilently ==
    /\ client_pc # "panicked"
    /\ Len(calls) > 0 /\ calls[Len(calls)] = MaxI32 => current_request = MinI32

\* the Pdu a call is to send: the request id the call took, and the tag, the
\* two integer fields and the bindings given
ExpectedPdu(tag, field2, field3, bindings) ==
    [tag |-> tag, request_id |-> calls[Len(calls)], err_status |-> field2,
     err_index |-> field3, bindings |-> bindings]

NullBindings(names) == [i \in 1..Len(names) |-> [name |-> names[i], value |-> Null]]

\* the call built `pdu`, and every buffer it sent is the encoding of a Message
\* that carries `pdu`
SentPdu(pdu) ==
    /\ call.pdu = pdu
    /\ \A i \in 1..Len(call.sent) :
          call.sent[i] = EncodeMessage(Message_new(version, SentCommunity(i), pdu))

\* C11: get_bulk sends a GetBulkRequest whose bindings are the non-repeating
\* oids followed by the repeating oids, each in input order and with value
\* Null, whose second integer field is the number of non-repeating oids and
\* whose third is the repetitions.
C11_GetBulkConstruction ==
    Exchanged /\ call.op = "get_bulk"
        => SentPdu(ExpectedPdu("GetBulkRequest", Len(call.args.oids), call.args.repetitions,
                            NullBindings(call.args.oids \o call.args.more)))

C11_Witness ==
    /\ Exchanged /\ call.op = "get_bulk"
    /\ Len(call.sent) = 1
    /\ Len(call.args.oids) = 1 /\ Len(call.args.more) = 2
    /\ call.args.repetitions = 10
    /\ DecodeMessage(call.sent[1]).val.data.err_index = 10

\* C12: get sends a GetRequest and get_next a GetNextRequest; in both the
\* status and index fields are 0 and the bindings are one (oid, Null) per
\* input oid, in input order.
C12_GetConstruction ==
    Exchanged /\ call.op \in { "get", "get_next" }
        => SentPdu(ExpectedPdu(IF call.op = "get" THEN "GetRequest" ELSE "GetNextRequest",
                            0, 0, NullBindings(call.args.oids)))

C12_Witness ==
    /\ Exchanged /\ call.op = "get_next"
    /\ Len(call.sent) = 1
    /\ Len(call.args.oids) = 2
    /\ DecodeMessage(call.sent[1]).val.data.tag = "GetNextRequest"

\* C13: set sends a SetRequest whose bindings are the bindings supplied: same
\* length, order, names and values.
C13_SetConstruction ==
    Exchanged /\ call.op = "set"
        => SentPdu(ExpectedPdu("SetRequest", 0, 0, call.args.bindings))

C13_Witness ==
    /\ Exchanged /\ call.op = "set"
    /\ Len(call.sent) = 1
    /\ Len(call.args.bindings) = 2
    /\ call.args.bindings[1].value.kind = "OctetStr"

C17_ClientStateFrame ==
    [][/\ version' = version
       /\ IF calls' # calls \/ client_pc' # client_pc
          THEN /\ read_community' = read_community
               /\ write_community' = write_community
          ELSE /\ current_request' = current_request
               /\ call' = call]_vars

C17_Witness ==
    /\ Exchanged /\ ~call.result.ok
    /\ Len(calls) = 2
    /\ read_community = << 115 >> /\ write_community = public
    /\ call.held = << read_community, write_community >>
    /\ calls[1] < MaxI32 - 1
    /\ current_request = calls[1] + 2

\* C20: a call that receives a datagram that is the encoding of a Message
\* returns Ok with exactly the bindings of that Message, in their order,
\* whatever request id the Message carries and whatever the call asked for.
C20_NoCorrelation ==
    Exchanged /\ Len(call.steps) = 4 =>
        \A pdu \in ReplyPdus(call.pdu.request_id) :
            call.env.recv = EncodeMessage(Message_new("V2C", public, pdu))
                => call.result = Ok(pdu.bindings)

-----------------------------------------------------------------------------
(* The walk driver (bin/main.rs) against an arbitrary agent.               *)

MaxRounds == 4

\* the binding lists the agent answers with
WalkBindings ==
    { << VarBinding(n, v) >> :
          n \in { << 1, 3, 6 >>, << 1, 3, 6, 1 >>, << 1, 3, 7 >> },
          v \in { Num("Integer", 5), EndOfMIBView } }
    \cup { << >>,
           << VarBinding(<< 1, 3, 6, 1 >>, Num("Integer", 5)),
              VarBinding(<< 1, 3, 7 >>, Num("Gauge32", 128)) >> }

ReplyEnv(rid, bindings) ==
    [encode_ok |-> TRUE, send_ok |-> TRUE,
     recv |-> EncodeMessage(Message_new("V2C", public,
                  with_bindings(Pdu_new("GetResponse", rid), bindings)))]

InitWalk ==
    /\ little_endian = TRUE
    /\ overflow_checks \in BOOLEAN
    /\ version = "V2C"
    /\ current_request \in { 0, MaxI32 }
    /\ read_community = public
    /\ write_community = private
    /\ client_pc = "ready"
    /\ call = NoCall
    /\ calls = << >>
    /\ walk_pc = "start"
    /\ oids = << << 1, 3, 6 >> >>
    /\ vars_ = << >>
    /\ emitted = << >>
    /\ agent_log = << >>
    /\ CodecIdle /\ TagIdle /\ PduIdle

\* c.get_next(&names).expect("No data returned"): the reply's bindings become
\* vars, or the process panics
Request(names, env) ==
    /\ get_next(names, env)
    /\ IF client_pc' = "panicked" \/ ~call'.result.ok
       THEN walk_pc' = "panicked" /\ vars_' = << >>
       ELSE walk_pc' = "loop" /\ vars_' = call'.result.val

\* one GET-NEXT round: the agent answers with a binding list, or the exchange
\* fails
Round(names) ==
    \/ \E bindings \in WalkBindings :
          /\ Request(names, ReplyEnv(current_request, bindings))
          /\ agent_log' = IF client_pc' = "panicked" THEN agent_log
                          ELSE Append(agent_log, bindings)
    \/ \E env \in { [encode_ok |-> FALSE, send_ok |-> TRUE, recv |-> RecvFail],
                    [encode_ok |-> TRUE, send_ok |-> FALSE, recv |-> RecvFail],
                    [encode_ok |-> TRUE, send_ok |-> TRUE, recv |-> RecvFail] }
                  \cup { [encode_ok |-> TRUE, send_ok |-> TRUE, recv |-> d] :
                           d \in Malformed } :
          /\ Request(names, env)
          /\ agent_log' = agent_log

Names(bindings) == [i \in 1..Len(bindings) |-> bindings[i].name]

\* the condition of the while loop, vars being non-empty
Continue == vars_[Len(vars_)].name # oids[Len(oids)]

WalkStart ==
    /\ walk_pc = "start"
    /\ Round(oids)
    /\ UNCHANGED << oids, emitted, buildVars, pduVars, codecVars, tagVars >>

WalkLoop ==
    /\ walk_pc = "loop"
    /\ IF vars_ = << >>
       THEN /\ walk_pc' = "panicked"
            /\ UNCHANGED << oids, vars_, emitted, agent_log, clientVars >>
       ELSE IF ~Continue
       THEN /\ walk_pc' = "halted"
            /\ UNCHANGED << oids, vars_, emitted, agent_log, clientVars >>
       ELSE /\ Len(calls) < MaxRounds
            /\ emitted' = Append(emitted, vars_[1])
            /\ oids' = Names(vars_)
            /\ Round(Names(vars_))
    /\ UNCHANGED << buildVars, pduVars, codecVars, tagVars >>

NextWalk == WalkStart \/ WalkLoop

SpecWalk == InitWalk /\ [][NextWalk]_vars

-----------------------------------------------------------------------------
(* Claims about the walk driver.                                           *)

\* a < b in the lexicographic order of object identifiers
RECURSIVE OidLess(_, _)
OidLess(a, b) ==
    IF b = << >> THEN FALSE
    ELSE IF a = << >> THEN TRUE
    ELSE IF Head(a) # Head(b) THEN Head(a) < Head(b)
    ELSE OidLess(Tail(a), Tail(b))

HasEnd(bindings) == \E i \in 1..Len(bindings) : bindings[i].value = EndOfMIBView

\* the agent has answered k requests with one name each, strictly increasing
\* and none with the sentinel, and the next request with EndOfMibView
Scenario(k) ==
    /\ k + 1 <= Len(agent_log)
    /\ \A i \in 1..(k + 1) : Len(agent_log[i]) = 1
    /\ \A i \in 1..k : agent_log[i][1].value # EndOfMIBView
    /\ \A i \in 1..(k - 1) : OidLess(agent_log[i][1].name, agent_log[i + 1][1].name)
    /\ agent_log[k + 1][1].value = EndOfMIBView

\* C2: when the agent has answered with n1 < ... < nk and then with
\* EndOfMibView, the driver has emitted exactly n1, ..., nk, in that order, and
\* has issued no request after the one answered with EndOfMibView.
C2_WalkComplete ==
    \A k \in 0..MaxRounds :
        Scenario(k) =>
            /\ Names(emitted) = [i \in 1..k |-> agent_log[i][1].name]
            /\ Len(calls) = k + 1
            /\ walk_pc \in { "loop", "halted" }

\* C3: once a reply holds a binding whose value is EndOfMibView, whatever its
\* name, the driver issues no further GET-NEXT request.
C3_SentinelStops ==
    \A i \in 1..Len(agent_log) : HasEnd(agent_log[i]) => Len(calls) = i

Last(seq) == seq[Len(seq)]

\* the oid list of the i-th request of the walk: the seed, then the names of
\* the reply before
ReqOids(i) == IF i = 1 THEN << << 1, 3, 6 >> >> ELSE Names(agent_log[i - 1])

\* C18: the driver issues a further GET-NEXT exactly when the last name of a
\* reply differs from the last oid of its request; the oids of that further
\* request are the names of the reply, in order; and the driver has emitted
\* the first binding of every reply but the one it stops on.
C18_ContinuationRule ==
    /\ \A i \in 2..Len(calls) :
          /\ agent_log[i - 1] # << >>
          /\ Last(agent_log[i - 1]).name # Last(ReqOids(i - 1))
    /\ walk_pc = "halted" =>
          /\ Last(agent_log) # << >>
          /\ Last(Last(agent_log)).name = Last(ReqOids(Len(agent_log)))
    /\ walk_pc \in { "loop", "halted" } =>
          /\ call.op = "get_next"
          /\ call.args.oids = ReqOids(Len(calls))
          /\ Len(emitted) = Len(agent_log) - 1
    /\ emitted = [i \in 1..Len(emitted) |-> agent_log[i][1]]

\* C19: the driver halts against every agent.  What the driver does after a
\* reply depends on its oids and the reply alone, so an agent that answers a
\* repeated request as it did before keeps the driver going for ever: a
\* driver that halts against every agent issues no oid list twice.
C19_WalkTerminates ==
    \A i, j \in 1..Len(calls) : i < j => ReqOids(i) # ReqOids(j)

\* C22: the walk never aborts on a reply that decodes: whenever a reply has just
\* been received, it has a last binding and the request oid list has a last
\* element, and the driver panics only after an exchange that failed; a decoded
\* reply with an empty binding list makes it halt or continue.
C22_NeverAborts ==
    /\ walk_pc = "loop" => vars_ # << >> /\ oids # << >>
    /\ walk_pc = "panicked" => client_pc = "panicked" \/ ~call.result.ok

====
